---- MODULE Spec2Model ----
(***************************************************************************)
(* Best Buy Product Explorer (src/app.py): the batched retrieval engine.   *)
(* One run of the Streamlit script after a button click: the UI branch,    *)
(* the fetch_products_by_* function it calls, and safe_get_products, the   *)
(* rate-limited fetcher, one step per network request and per sleep.       *)
(* Times are in tenths of a second; the run timestamp has the resolution   *)
(* of one second, as strftime("%Y-%m-%d %H:%M:%S") gives it.               *)
(***************************************************************************)
EXTENDS Integers, Sequences, FiniteSets, TLC

\* ---------------------------------------------------------------------
\* Program constants
\* ---------------------------------------------------------------------
retries == 3            \* safe_get_products(..., retries: int = 3, ...)
backoff == 15           \* backoff: float = 1.5 seconds, in tenths
chunk_size == 100       \* fetch_products_by_skus: chunk_size = 100
pageSize == 100         \* params["pageSize"] = 100
InterCallSleep == 3     \* time.sleep(0.3), in tenths
TicksPerSecond == 10    \* tenths of a second in one second of run_ts

\* ---------------------------------------------------------------------
\* Bounds of the model
\* ---------------------------------------------------------------------
MaxKeys == 201          \* longest key list submitted (three chunks)
MaxPages == 3           \* pages of a paged run the model follows
ClockAtStart == 25      \* the wall clock when the button is clicked, in tenths

\* ---------------------------------------------------------------------
\* Inputs
\* ---------------------------------------------------------------------
\* A normalized key list of n keys (distinct, as normalize_sku_input leaves it).
Keys(n) == [i \in 1..n |-> i]
KeyCounts == {0, 1, chunk_size, chunk_size + 1, 2 * chunk_size, MaxKeys}
Keywords == {"", "tv"}
CategoryIds == {"", "abcat0502000"}

\* What the server can answer to one request.
RateLimitStatuses == {403, 429}
OtherStatuses == {404, 500}
ResponseText(status) ==
    CASE status = 404 -> "Not Found"
      [] status = 500 -> "Internal Server Error"
      [] status = 403 -> "Developer Over Qps"
      [] status = 429 -> "Too Many Requests"
      [] OTHER -> "OK"
Products(n, start) == [i \in 1..n |-> [sku |-> start + i]]
PayloadLens == {0, 37, pageSize - 1, pageSize}
PayloadStarts == {0, 50}
Payloads == {[products |-> Products(n, s)] : n \in PayloadLens, s \in PayloadStarts}
Responses ==
    {[kind |-> "http", status_code |-> 200, text |-> ResponseText(200), json |-> p] :
        p \in Payloads}
    \cup
    {[kind |-> "http", status_code |-> s, text |-> ResponseText(s), json |-> [products |-> <<>>]] :
        s \in RateLimitStatuses \cup OtherStatuses}
    \cup
    {[kind |-> "exception", status_code |-> 0, text |-> "ConnectionError", json |-> [products |-> <<>>]]}

\* Python values
None == [isNone |-> TRUE]
\* Mutant of Not: the test on the empty input is missing.
NotNever(m, x) == FALSE

\* `not x` on the input of mode m: true of the empty list (SKU mode) and of
\* the empty string (keyword and category modes).
Not(m, x) == IF m = "sku" THEN Len(x) = 0 ELSE x = ""
\* `if data` on the fetcher's return value: None is false, a decoded object
\* (never empty here, it has the key "products") is true.
Truthy(d) == d # None

VARIABLES
    pc,           \* where the run is
    mode,         \* st.sidebar.radio: "SKU List", "Keyword Search", "Category Browse"
    sku_list,     \* skus, the normalized key list
    keyword,      \* the keyword text
    category_id,  \* the category id text
    clock,        \* wall clock, tenths of a second
    run_ts,       \* run-level timestamp, seconds
    all_rows,     \* rows accumulated by the fetch function
    idx,          \* offset of the current chunk in sku_list
    page,         \* params["page"]
    progress,     \* values given to the st.progress bar, <<numerator, denominator>>
    attempt,      \* loop variable of safe_get_products
    resp,         \* resp, the last response of requests.get
    data,         \* return value of safe_get_products
    st_out,       \* st.error / st.warning calls of safe_get_products
    df,           \* the DataFrame the fetch function returns
    ui_msg,       \* what the UI branch shows for the run
    net_requests, \* requests.get calls of the run so far
    statuses,     \* outcome of every requests.get of the current fetcher invocation:
                  \* the status code, 0 when the call raised
    sleeps,       \* backoff sleeps of the current fetcher invocation
    pauses,       \* the time.sleep(0.3) calls of the run between fetcher invocations
    backoff_total, \* the time the run spent in the backoff sleeps of the fetcher
    calls,        \* the chunk or page of every fetcher invocation of the run
    fetched       \* the return value of every completed fetcher invocation, and how
                  \* it ended: "ok", "error" (terminal status) or "exhausted"

\* One call of normalize_sku_input, and a second one on its own output.
VARIABLES
    norm_pc,      \* "idle", "input", "normalized", "renormalized"
    sku_text,     \* the argument sku_text, a sequence of characters
    norm_keys,    \* the list the call returned
    norm_again    \* the list returned for the keys of norm_keys joined into a text

\* One call of extract_category.
VARIABLES
    cat_pc,       \* "idle", "input", "extracted"
    product,      \* the argument product
    category      \* the value the call returned

\* Two runs of fetch_products_by_keyword in two sessions of the same process.
VARIABLES
    frames,       \* for each run, the locals of its calls and where it is
    run_resps     \* for each run, the responses its requests got so far

normVars == <<norm_pc, sku_text, norm_keys, norm_again>>
catVars == <<cat_pc, product, category>>
twoVars == <<frames, run_resps>>
asideVars == <<normVars, catVars, twoVars>>

runVars == <<pc, mode, sku_list, keyword, category_id, clock, run_ts, all_rows, idx, page,
             progress, attempt, resp, data, st_out, df, ui_msg, net_requests, statuses, sleeps,
             pauses, backoff_total, calls, fetched>>

vars == <<runVars, asideVars>>

inputVars == <<mode, sku_list, keyword, category_id>>

NoTimestamp == -1
NoResponse == [kind |-> "none", status_code |-> 0, text |-> "", json |-> [products |-> <<>>]]

\* No call of normalize_sku_input or extract_category under way.
PyNone == [type |-> "none"]
NormIdle == norm_pc = "idle" /\ sku_text = <<>> /\ norm_keys = <<>> /\ norm_again = <<>>
CatIdle == cat_pc = "idle" /\ product = PyNone /\ category = PyNone

\* The two runs, and the locals of a run that has not been started.
Runs == {1, 2}
IdleFrame ==
    [pc |-> "idle", run_ts |-> NoTimestamp, page |-> 1, all_rows |-> <<>>, attempt |-> 0,
     data |-> None, sleeps |-> <<>>, df |-> <<>>]
TwoIdle == frames = [r \in Runs |-> IdleFrame] /\ run_resps = [r \in Runs |-> <<>>]

\* The script before a button is clicked.
InitRun ==
    /\ pc = "idle"
    /\ mode = "none"
    /\ sku_list = <<>>
    /\ keyword = ""
    /\ category_id = ""
    /\ clock = ClockAtStart
    /\ run_ts = NoTimestamp
    /\ all_rows = <<>>
    /\ idx = 0
    /\ page = 1
    /\ progress = <<>>
    /\ attempt = 0
    /\ resp = NoResponse
    /\ data = None
    /\ st_out = <<>>
    /\ df = <<>>
    /\ ui_msg = "none"
    /\ net_requests = 0
    /\ statuses = <<>>
    /\ sleeps = <<>>
    /\ pauses = <<>>
    /\ backoff_total = 0
    /\ calls = <<>>
    /\ fetched = <<>>

Init == InitRun /\ NormIdle /\ CatIdle /\ TwoIdle

\* ---------------------------------------------------------------------
\* Helpers of the run
\* ---------------------------------------------------------------------
\* datetime.datetime.now().strftime("%Y-%m-%d %H:%M:%S"): the clock, in seconds.
Now == clock \div TicksPerSecond

Min(a, b) == IF a <= b THEN a ELSE b

\* Mutant of Chunk: the slice ends one key early.
ChunkOneShort(list, i) == SubSeq(list, i + 1, Min(i + chunk_size - 1, Len(list)))

\* sku_list[idx : idx + chunk_size], idx counted from 0.
Chunk(list, i) == SubSeq(list, i + 1, Min(i + chunk_size, Len(list)))

\* total_chunks = (len(sku_list) + chunk_size - 1) // chunk_size
total_chunks == (Len(sku_list) + chunk_size - 1) \div chunk_size

\* The row appended for one product (the nine fields are copied alike).
ProjectRow(p) == [sku |-> p.sku]

\* data.get("products", [])
GetProducts(d) == IF "products" \in DOMAIN d THEN d.products ELSE <<>>

\* all_rows after the `for product in ...: all_rows.append({...})` loop.
AppendRows(rows, products) ==
    rows \o [i \in 1..Len(products) |-> ProjectRow(products[i])]

\* Mutant of RowsAfterFetch: a fetch without data drops the rows collected so far.
RowsAfterFetchDropping(rows, d) == IF d # None THEN AppendRows(rows, GetProducts(d)) ELSE <<>>

\* all_rows after the caller looked at the fetcher's return value d:
\* `if data and isinstance(data, dict)` (SKU mode), `if not data: break` (paged).
RowsAfterFetch(rows, d) == IF Truthy(d) THEN AppendRows(rows, GetProducts(d)) ELSE rows

\* Mutant of DataFrame: the rows are stamped with the time the frame is built.
DataFrameStampedNow(rows, ts) ==
    [i \in 1..Len(rows) |-> [sku |-> rows[i].sku, data_pull_time |-> Now]]

\* df = pd.DataFrame(all_rows); if not df.empty: df["data_pull_time"] = run_ts
DataFrame(rows, ts) ==
    [i \in 1..Len(rows) |-> [sku |-> rows[i].sku, data_pull_time |-> ts]]

\* min((idx // chunk_size + 1) / total_chunks, 1.0), as a fraction.
ProgressValue(i, total) ==
    IF (i \div chunk_size) + 1 >= total THEN <<1, 1>> ELSE <<(i \div chunk_size) + 1, total>>

\* Entering safe_get_products(url, params) for the chunk or page `query`.
CallFetcher(query) ==
    /\ attempt' = 0
    /\ resp' = NoResponse
    /\ data' = None
    /\ statuses' = <<>>
    /\ sleeps' = <<>>
    /\ calls' = Append(calls, query)
    /\ pc' = "request"

\* ---------------------------------------------------------------------
\* UI: the button handlers
\* ---------------------------------------------------------------------
\* if st.button("Fetch by SKUs"): skus = normalize_sku_input(sku_input); ...
ButtonFetchBySkus ==
    /\ pc = "idle"
    /\ \E n \in KeyCounts :
        /\ sku_list' = Keys(n)
        /\ mode' = "sku"
        /\ IF Not("sku", sku_list')
              THEN /\ ui_msg' = "Please paste at least one SKU."
                   /\ pc' = "done"
              ELSE /\ ui_msg' = ui_msg
                   /\ pc' = "enter"
    /\ UNCHANGED <<asideVars, pauses, backoff_total, keyword, category_id, clock, run_ts, all_rows, idx, page, progress,
                   attempt, resp, data, st_out, df, net_requests, statuses, sleeps, calls, fetched>>

\* if st.button("Search"): if not keyword: ... else: df = fetch_products_by_keyword(keyword)
ButtonSearch ==
    /\ pc = "idle"
    /\ \E k \in Keywords :
        /\ keyword' = k
        /\ mode' = "keyword"
        /\ IF Not("keyword", keyword')
              THEN /\ ui_msg' = "Please enter a keyword."
                   /\ pc' = "done"
              ELSE /\ ui_msg' = ui_msg
                   /\ pc' = "enter"
    /\ UNCHANGED <<asideVars, pauses, backoff_total, sku_list, category_id, clock, run_ts, all_rows, idx, page, progress,
                   attempt, resp, data, st_out, df, net_requests, statuses, sleeps, calls, fetched>>

\* if st.button("Browse Category"): if not category_id: ... else: df = fetch_products_by_category(...)
ButtonBrowseCategory ==
    /\ pc = "idle"
    /\ \E c \in CategoryIds :
        /\ category_id' = c
        /\ mode' = "category"
        /\ IF Not("category", category_id')
              THEN /\ ui_msg' = "Please enter a category ID."
                   /\ pc' = "done"
              ELSE /\ ui_msg' = ui_msg
                   /\ pc' = "enter"
    /\ UNCHANGED <<asideVars, pauses, backoff_total, sku_list, keyword, clock, run_ts, all_rows, idx, page, progress,
                   attempt, resp, data, st_out, df, net_requests, statuses, sleeps, calls, fetched>>

\* ---------------------------------------------------------------------
\* safe_get_products
\* ---------------------------------------------------------------------
\* Mutants of BackoffDelay: the attempt counted from 0; the same delay each time.
BackoffDelayFromZero(a) == backoff * a
BackoffDelayConstant(a) == backoff

\* The delay of the backoff sleep of the attempt a (counted from 0).
BackoffDelay(a) == backoff * (a + 1)

\* Mutant of IsRateLimited: every status but 200 is retried.
IsRateLimitedAnyError(status) == status # 200

\* resp.status_code in (403, 429)
IsRateLimited(status) == status \in {403, 429}

\* st.error(f"Error {resp.status_code}: {resp.text}")
ErrorMessage(r) == [kind |-> "error", status_code |-> r.status_code, text |-> r.text]

\* st.warning("Rate limit persisted after retries; partial results shown.")
RateLimitWarning ==
    [kind |-> "warning", status_code |-> 0,
     text |-> "Rate limit persisted after retries; partial results shown."]

\* How a completed invocation ended, from the status of its last response.
Outcome(sts) ==
    IF sts[Len(sts)] = 200 THEN "ok"
    ELSE IF IsRateLimited(sts[Len(sts)]) THEN "exhausted" ELSE "error"

\* One pass of the loop body up to the sleep: requests.get and the tests on
\* the status code. A transport failure raises out of requests.get; nothing
\* in the program catches it.
safe_get_products_request ==
    /\ pc = "request"
    /\ \E r \in Responses :
        /\ net_requests' = net_requests + 1
        /\ statuses' = Append(statuses, r.status_code)
        /\ IF r.kind = "exception"
              THEN /\ pc' = "raised"
                   /\ ui_msg' = "exception"
                   /\ UNCHANGED <<resp, data, st_out>>
              ELSE /\ resp' = r
                   /\ ui_msg' = ui_msg
                   /\ IF r.status_code = 200
                         THEN /\ data' = r.json
                              /\ pc' = "returned"
                              /\ st_out' = st_out
                         ELSE IF IsRateLimited(r.status_code)
                           THEN /\ pc' = "backoff"
                                /\ UNCHANGED <<data, st_out>>
                           ELSE /\ st_out' = Append(st_out, ErrorMessage(r))
                                /\ data' = None
                                /\ pc' = "returned"
    /\ UNCHANGED <<asideVars, inputVars, pauses, backoff_total, clock, run_ts, all_rows, idx, page, progress, attempt, df,
                   sleeps, calls, fetched>>

\* time.sleep(backoff * (attempt + 1)); continue: the next attempt, or the end
\* of the loop with st.warning and return None.
safe_get_products_backoff ==
    /\ pc = "backoff"
    /\ clock' = clock + BackoffDelay(attempt)
    /\ sleeps' = Append(sleeps, BackoffDelay(attempt))
    /\ backoff_total' = backoff_total + BackoffDelay(attempt)
    /\ pauses' = pauses
    /\ IF attempt + 1 < retries
          THEN /\ attempt' = attempt + 1
               /\ pc' = "request"
               /\ UNCHANGED <<data, st_out>>
          ELSE /\ attempt' = attempt
               /\ st_out' = Append(st_out, RateLimitWarning)
               /\ data' = None
               /\ pc' = "returned"
    /\ UNCHANGED <<asideVars, inputVars, run_ts, all_rows, idx, page, progress, resp, df, ui_msg,
                   net_requests, statuses, calls, fetched>>

\* ---------------------------------------------------------------------
\* fetch_products_by_skus
\* ---------------------------------------------------------------------
\* Mutant of InterCallDelay: no sleep after an invocation that returned None.
InterCallDelayOnData(d) == IF d # None THEN InterCallSleep ELSE 0

\* time.sleep(0.3) after an invocation, whatever data it returned.
InterCallDelay(d) == InterCallSleep

\* The sleep, recorded with the number of invocations completed before it.
Pause(d) == [after |-> Len(fetched), ticks |-> InterCallDelay(d)]

SkuQuery(i) == [chunk |-> Chunk(sku_list, i), page |-> 0]

\* Mutant of PageQuery: the page index counted from 0.
PageQueryFromZero(p) == [chunk |-> <<>>, page |-> p - 1]

PageQuery(p) == [chunk |-> <<>>, page |-> p]

\* From the call to the first safe_get_products: the guard on the empty list,
\* the run timestamp, the locals, the progress bar and the first chunk.
fetch_products_by_skus ==
    /\ pc = "enter"
    /\ mode = "sku"
    /\ IF Not("sku", sku_list)
          THEN /\ df' = <<>>
               /\ pc' = "display"
               /\ UNCHANGED <<run_ts, all_rows, idx, progress, attempt, resp, data, statuses,
                              sleeps, calls>>
          ELSE /\ run_ts' = Now
               /\ all_rows' = <<>>
               /\ progress' = <<(<<0, 1>>)>>
               /\ idx' = 0
               /\ IF 0 < Len(sku_list)
                     THEN /\ CallFetcher(SkuQuery(0))
                          /\ df' = df
                     ELSE /\ df' = DataFrame(<<>>, Now)
                          /\ pc' = "display"
                          /\ UNCHANGED <<attempt, resp, data, statuses, sleeps, calls>>
    /\ UNCHANGED <<asideVars, inputVars, pauses, backoff_total, clock, page, st_out, ui_msg, net_requests, fetched>>

\* After safe_get_products returned: the rows of the chunk and the progress bar.
fetch_products_by_skus_rows ==
    /\ pc = "returned"
    /\ mode = "sku"
    /\ all_rows' = RowsAfterFetch(all_rows, data)
    /\ fetched' = Append(fetched, [data |-> data, outcome |-> Outcome(statuses)])
    /\ progress' = Append(progress, ProgressValue(idx, total_chunks))
    /\ pc' = "sleep"
    /\ UNCHANGED <<asideVars, inputVars, pauses, backoff_total, clock, run_ts, idx, page, attempt, resp, data, st_out, df, ui_msg,
                   net_requests, statuses, sleeps, calls>>

\* time.sleep(0.3), then the next chunk, or the end of the loop and the DataFrame.
fetch_products_by_skus_sleep ==
    /\ pc = "sleep"
    /\ mode = "sku"
    /\ clock' = clock + InterCallDelay(data)
    /\ pauses' = Append(pauses, Pause(data))
    /\ backoff_total' = backoff_total
    /\ IF idx + chunk_size < Len(sku_list)
          THEN /\ idx' = idx + chunk_size
               /\ CallFetcher(SkuQuery(idx + chunk_size))
               /\ df' = df
          ELSE /\ df' = DataFrame(all_rows, run_ts)
               /\ pc' = "display"
               /\ UNCHANGED <<idx, attempt, resp, data, statuses, sleeps, calls>>
    /\ UNCHANGED <<asideVars, inputVars, run_ts, all_rows, page, progress, st_out, ui_msg,
                   net_requests, fetched>>

\* ---------------------------------------------------------------------
\* fetch_products_by_keyword and fetch_products_by_category
\* ---------------------------------------------------------------------
\* Mutant of IsLastPage: a full page ends the run too.
IsLastPageInclusive(products) == Len(products) <= pageSize

\* if len(products) < params["pageSize"]: break
IsLastPage(products) == Len(products) < pageSize

\* From the call to the first safe_get_products, for the input `text` of mode m.
PagedEnter(m, text) ==
    /\ pc = "enter"
    /\ mode = m
    /\ IF Not(m, text)
          THEN /\ df' = <<>>
               /\ pc' = "display"
               /\ UNCHANGED <<run_ts, all_rows, page, attempt, resp, data, statuses, sleeps, calls>>
          ELSE /\ run_ts' = Now
               /\ page' = 1
               /\ all_rows' = <<>>
               /\ CallFetcher(PageQuery(1))
               /\ df' = df
    /\ UNCHANGED <<asideVars, inputVars, pauses, backoff_total, clock, idx, progress, st_out, ui_msg, net_requests, fetched>>

\* After safe_get_products returned: break on no data, the rows of the page,
\* break on a short page, else the next page index.
PagedRows(m) ==
    /\ pc = "returned"
    /\ mode = m
    /\ fetched' = Append(fetched, [data |-> data, outcome |-> Outcome(statuses)])
    /\ all_rows' = RowsAfterFetch(all_rows, data)
    /\ IF ~Truthy(data)
          THEN /\ df' = DataFrame(all_rows', run_ts)
               /\ pc' = "display"
               /\ page' = page
          ELSE IF IsLastPage(GetProducts(data))
                 THEN /\ df' = DataFrame(all_rows', run_ts)
                      /\ pc' = "display"
                      /\ page' = page
                 ELSE /\ page' = page + 1
                      /\ pc' = "sleep"
                      /\ df' = df
    /\ UNCHANGED <<asideVars, inputVars, pauses, backoff_total, clock, run_ts, idx, progress, attempt, resp, data, st_out, ui_msg,
                   net_requests, statuses, sleeps, calls>>

\* time.sleep(0.3), then safe_get_products for the next page. The model follows
\* a run up to its page MaxPages.
PagedSleep(m) ==
    /\ pc = "sleep"
    /\ mode = m
    /\ page <= MaxPages
    /\ clock' = clock + InterCallDelay(data)
    /\ pauses' = Append(pauses, Pause(data))
    /\ backoff_total' = backoff_total
    /\ CallFetcher(PageQuery(page))
    /\ UNCHANGED <<asideVars, inputVars, run_ts, all_rows, idx, page, progress, st_out, df, ui_msg,
                   net_requests, fetched>>

fetch_products_by_keyword == PagedEnter("keyword", keyword)
fetch_products_by_keyword_rows == PagedRows("keyword")
fetch_products_by_keyword_sleep == PagedSleep("keyword")

fetch_products_by_category == PagedEnter("category", category_id)
fetch_products_by_category_rows == PagedRows("category")
fetch_products_by_category_sleep == PagedSleep("category")

\* ---------------------------------------------------------------------
\* UI: what the branch shows for the DataFrame it got back
\* ---------------------------------------------------------------------
\* if df.empty: st.warning("No products found.") else: st.success(...); st.dataframe(df)
UiMessage(frame) == IF Len(frame) = 0 THEN "No products found." ELSE "Found products."

Display ==
    /\ pc = "display"
    /\ ui_msg' = UiMessage(df)
    /\ pc' = "done"
    /\ UNCHANGED <<asideVars, inputVars, pauses, backoff_total, clock, run_ts, all_rows, idx, page, progress, attempt, resp, data,
                   st_out, df, net_requests, statuses, sleeps, calls, fetched>>

Next ==
    \/ ButtonFetchBySkus
    \/ ButtonSearch
    \/ ButtonBrowseCategory
    \/ fetch_products_by_skus
    \/ fetch_products_by_skus_rows
    \/ fetch_products_by_skus_sleep
    \/ fetch_products_by_keyword
    \/ fetch_products_by_keyword_rows
    \/ fetch_products_by_keyword_sleep
    \/ fetch_products_by_category
    \/ fetch_products_by_category_rows
    \/ fetch_products_by_category_sleep
    \/ safe_get_products_request
    \/ safe_get_products_backoff
    \/ Display

Spec == Init /\ [][Next]_vars

\* =====================================================================
\* normalize_sku_input
\* =====================================================================
\* A text is a sequence of characters. The characters of the inputs: the four
\* separators, the two quotes and two ordinary characters.
Whitespace == {" ", "\t", "\n"}
Separators == Whitespace \cup {","}
Chars == Separators \cup {"\"", "'", "a", "b"}
MaxTextLen == 4
Texts == UNION {[1..n -> Chars] : n \in 0..MaxTextLen}

\* str.strip(chars): the text without its leading and trailing characters of S.
RECURSIVE StripLeft(_, _)
StripLeft(t, S) ==
    IF Len(t) > 0 /\ Head(t) \in S THEN StripLeft(Tail(t), S) ELSE t

RECURSIVE StripRight(_, _)
StripRight(t, S) ==
    IF Len(t) > 0 /\ t[Len(t)] \in S THEN StripRight(SubSeq(t, 1, Len(t) - 1), S) ELSE t

strip(t, S) == StripRight(StripLeft(t, S), S)

\* re.split(r"[,\s]+", t) from the character i on, cur the token under way and
\* acc the tokens before it: every run of separators ends a token, an empty
\* one at a run that starts or ends the text.
RECURSIVE SplitFrom(_, _, _, _)
SplitFrom(t, i, cur, acc) ==
    IF i > Len(t) THEN Append(acc, cur)
    ELSE IF t[i] \in Separators
           THEN IF i > 1 /\ t[i - 1] \in Separators
                  THEN SplitFrom(t, i + 1, cur, acc)
                  ELSE SplitFrom(t, i + 1, <<>>, Append(acc, cur))
           ELSE SplitFrom(t, i + 1, Append(cur, t[i]), acc)

re_split(t) == SplitFrom(t, 1, <<>>, <<>>)

\* skus = re.split(r"[,\s]+", sku_text.strip())
skus(t) == re_split(strip(t, Whitespace))

\* s.strip().strip('"').strip("'")
StripToken(s) == strip(strip(strip(s, Whitespace), {"\""}), {"'"})

\* cleaned = [s.strip().strip('"').strip("'") for s in skus if s.strip().strip('"').strip("'")]
cleaned(t) ==
    SelectSeq([i \in 1..Len(skus(t)) |-> StripToken(skus(t)[i])], LAMBDA s : Len(s) > 0)

\* for s in cleaned: if s not in seen: seen.add(s); out.append(s)
RECURSIVE AppendUnseen(_, _)
AppendUnseen(q, acc) ==
    IF Len(q) = 0 THEN acc
    ELSE IF \E i \in 1..Len(acc) : acc[i] = Head(q)
           THEN AppendUnseen(Tail(q), acc)
           ELSE AppendUnseen(Tail(q), Append(acc, Head(q)))

\* Mutant of out: every token is appended, seen or not.
outWithRepeats(q) == q

out(q) == AppendUnseen(q, <<>>)

normalize_sku_input(t) == IF Len(t) = 0 THEN <<>> ELSE out(cleaned(t))

\* The keys of a list written one after the other with sep between them.
RECURSIVE Join(_, _)
Join(keys, sep) ==
    IF Len(keys) = 0 THEN <<>>
    ELSE IF Len(keys) = 1 THEN keys[1]
    ELSE keys[1] \o <<sep>> \o Join(Tail(keys), sep)

\* A call of normalize_sku_input on any text of the inputs.
InitNormalize ==
    /\ InitRun
    /\ CatIdle
    /\ TwoIdle
    /\ norm_pc = "input"
    /\ sku_text \in Texts
    /\ norm_keys = <<>>
    /\ norm_again = <<>>

Normalize ==
    /\ norm_pc = "input"
    /\ norm_keys' = normalize_sku_input(sku_text)
    /\ norm_pc' = "normalized"
    /\ UNCHANGED <<runVars, catVars, twoVars, sku_text, norm_again>>

\* A second call, on the keys of the first joined by a separator.
Renormalize ==
    /\ norm_pc = "normalized"
    /\ \E sep \in Separators : norm_again' = normalize_sku_input(Join(norm_keys, sep))
    /\ norm_pc' = "renormalized"
    /\ UNCHANGED <<runVars, catVars, twoVars, sku_text, norm_keys>>

NextNormalize == Normalize \/ Renormalize

SpecNormalize == InitNormalize /\ [][NextNormalize]_vars

\* =====================================================================
\* extract_category
\* =====================================================================
\* Python values: None, a str, a list and a dict (PyNone is defined above).
PyStr(v) == [type |-> "str", value |-> v]
PyList(q) == [type |-> "list", items |-> q]
PyDict(f) == [type |-> "dict", fields |-> f]

\* d.get(key)
Get(d, key) == IF key \in DOMAIN d.fields THEN d.fields[key] ELSE PyNone

\* The truth value of a Python value.
IsTrue(v) ==
    CASE v.type = "none" -> FALSE
      [] v.type = "str" -> v.value # ""
      [] v.type = "list" -> Len(v.items) > 0
      [] v.type = "dict" -> DOMAIN v.fields # {}

\* The records of the inputs. A key of the record may be missing.
Missing == [type |-> "missing"]
Entry(n) == PyDict([k \in {"name"} |-> PyStr(n)])
NamelessEntry == PyDict([k \in {"id"} |-> PyStr("abcat0101000")])
CategoryPathValues ==
    {Missing, PyNone, PyList(<<>>), PyList(<<Entry("TVs")>>),
     PyList(<<Entry("TVs"), Entry("4K TVs")>>), PyList(<<Entry("TVs"), NamelessEntry>>),
     PyList(<<Entry("TVs"), Entry("")>>), PyList(<<PyStr("TVs")>>)}
ClassValues ==
    {Missing, Entry("Laptops"), NamelessEntry, Entry(""), PyStr("Laptops"), PyStr("")}
DepartmentValues == {Missing, PyStr("COMPUTERS")}

MakeProduct(cp, cls, dep) ==
    LET field(k) == CASE k = "categoryPath" -> cp [] k = "class" -> cls [] k = "department" -> dep
    IN PyDict([k \in {x \in {"categoryPath", "class", "department"} : field(x) # Missing}
                  |-> field(k)])

ProductInputs ==
    {MakeProduct(cp, cls, dep) :
        cp \in CategoryPathValues, cls \in ClassValues, dep \in DepartmentValues}

\* Mutant of last: the first element of the path.
first(cat_path) == cat_path.items[1]

\* last = cat_path[-1]
last(cat_path) == cat_path.items[Len(cat_path.items)]

extract_category(prod) ==
    LET got == Get(prod, "categoryPath")
        cat_path == IF IsTrue(got) THEN got ELSE PyList(<<>>)
        name == Get(last(cat_path), "name")
        cls == Get(prod, "class")
    IN IF /\ cat_path.type = "list"
          /\ IsTrue(cat_path)
          /\ last(cat_path).type = "dict"
          /\ IsTrue(name)
         THEN name
         ELSE IF cls.type = "dict"
                THEN IF IsTrue(Get(cls, "name"))
                       THEN Get(cls, "name")
                       ELSE Get(prod, "department")
                ELSE IF cls.type = "str"
                       THEN cls
                       ELSE Get(prod, "department")

\* A call of extract_category on any record of the inputs.
InitCategory ==
    /\ InitRun
    /\ NormIdle
    /\ TwoIdle
    /\ cat_pc = "input"
    /\ product \in ProductInputs
    /\ category = PyNone

ExtractCategory ==
    /\ cat_pc = "input"
    /\ category' = extract_category(product)
    /\ cat_pc' = "extracted"
    /\ UNCHANGED <<runVars, normVars, twoVars, product>>

NextCategory == ExtractCategory

SpecCategory == InitCategory /\ [][NextCategory]_vars

\* =====================================================================
\* Two interleaved runs of fetch_products_by_keyword
\* =====================================================================
MaxPagesTwo == 2
TwoPayloads == {[products |-> Products(n, 0)] : n \in {37, pageSize}}
TwoStatuses == {200, 429, 500}
TwoResponses ==
    {r \in Responses :
        \/ r.kind = "exception"
        \/ r.status_code \in TwoStatuses /\ (r.status_code = 200 => r.json \in TwoPayloads)}

\* Mutant of Frame: the two runs keep their locals in one place.
FrameShared(r) == 1

\* Where the locals of the run r are: page, all_rows and params are locals of
\* its call of fetch_products_by_keyword, attempt and resp of its call of
\* safe_get_products; the module has no variable that a call assigns.
Frame(r) == r

\* fetch_products_by_keyword up to its first safe_get_products.
OnEnter(f) ==
    [f EXCEPT !.pc = "request", !.run_ts = Now, !.page = 1, !.all_rows = <<>>,
              !.attempt = 0, !.data = None]

\* requests.get returned r (or raised), and the tests on the status code.
OnResponse(f, r) ==
    IF r.kind = "exception" THEN [f EXCEPT !.pc = "raised"]
    ELSE IF r.status_code = 200 THEN [f EXCEPT !.data = r.json, !.pc = "returned"]
    ELSE IF IsRateLimited(r.status_code) THEN [f EXCEPT !.pc = "backoff"]
    ELSE [f EXCEPT !.data = None, !.pc = "returned"]

\* time.sleep(backoff * (attempt + 1)), then the next attempt or return None.
OnBackoff(f) ==
    IF f.attempt + 1 < retries
      THEN [f EXCEPT !.sleeps = Append(@, BackoffDelay(f.attempt)), !.attempt = @ + 1,
                     !.pc = "request"]
      ELSE [f EXCEPT !.sleeps = Append(@, BackoffDelay(f.attempt)), !.data = None,
                     !.pc = "returned"]

\* After safe_get_products returned: break on no data, the rows of the page,
\* break on a short page, else the next page index.
OnReturned(f) ==
    IF ~Truthy(f.data) \/ IsLastPage(GetProducts(f.data))
      THEN [f EXCEPT !.all_rows = RowsAfterFetch(@, f.data),
                     !.df = DataFrame(RowsAfterFetch(f.all_rows, f.data), f.run_ts),
                     !.pc = "done"]
      ELSE [f EXCEPT !.all_rows = RowsAfterFetch(@, f.data), !.page = @ + 1, !.pc = "sleep"]

\* time.sleep(0.3), then safe_get_products for the next page.
OnSleep(f) == [f EXCEPT !.attempt = 0, !.data = None, !.pc = "request"]

InitTwoRuns == InitRun /\ NormIdle /\ CatIdle /\ TwoIdle

RunEnter(r) ==
    /\ frames[Frame(r)].pc = "idle"
    /\ frames' = [frames EXCEPT ![Frame(r)] = OnEnter(@)]
    /\ UNCHANGED <<runVars, normVars, catVars, run_resps>>

RunRequest(r) ==
    /\ frames[Frame(r)].pc = "request"
    /\ \E resp_r \in TwoResponses :
          /\ frames' = [frames EXCEPT ![Frame(r)] = OnResponse(@, resp_r)]
          /\ run_resps' = [run_resps EXCEPT ![r] = Append(@, resp_r)]
    /\ UNCHANGED <<runVars, normVars, catVars>>

RunBackoff(r) ==
    /\ frames[Frame(r)].pc = "backoff"
    /\ frames' = [frames EXCEPT ![Frame(r)] = OnBackoff(@)]
    /\ UNCHANGED <<runVars, normVars, catVars, run_resps>>

RunReturned(r) ==
    /\ frames[Frame(r)].pc = "returned"
    /\ frames' = [frames EXCEPT ![Frame(r)] = OnReturned(@)]
    /\ UNCHANGED <<runVars, normVars, catVars, run_resps>>

\* The model follows a run up to its page MaxPagesTwo.
RunSleep(r) ==
    /\ frames[Frame(r)].pc = "sleep"
    /\ frames[Frame(r)].page <= MaxPagesTwo
    /\ frames' = [frames EXCEPT ![Frame(r)] = OnSleep(@)]
    /\ UNCHANGED <<runVars, normVars, catVars, run_resps>>

NextTwoRuns ==
    \E r \in Runs :
        \/ RunEnter(r)
        \/ RunRequest(r)
        \/ RunBackoff(r)
        \/ RunReturned(r)
        \/ RunSleep(r)

SpecTwoRuns == InitTwoRuns /\ [][NextTwoRuns]_vars

\* =====================================================================
\* Properties
\* =====================================================================
Last(q) == q[Len(q)]

PagedMode == mode \in {"keyword", "category"}

\* The fetcher is between its call and its return.
InFetcher == pc \in {"request", "backoff"}

\* The backoff sleeps the current invocation owes: one per rate-limited
\* response, the one of a response just received still to come.
RateLimitedSoFar == Cardinality({i \in 1..Len(statuses) : statuses[i] \in RateLimitStatuses})

\* The rows the records of the first k completed invocations project to, in
\* order of invocation and, within one, of the response; an invocation
\* that returned no data gives none.
RECURSIVE RowsOfFetched(_)
RowsOfFetched(k) ==
    IF k = 0 THEN <<>>
    ELSE RowsOfFetched(k - 1) \o
         (IF fetched[k].outcome = "ok"
            THEN [i \in 1..Len(fetched[k].data.products) |->
                     [sku |-> fetched[k].data.products[i].sku]]
            ELSE <<>>)

\* The keys of the chunks of the first k invocations, one after the other.
RECURSIVE KeysOfCalls(_)
KeysOfCalls(k) == IF k = 0 THEN <<>> ELSE KeysOfCalls(k - 1) \o calls[k].chunk

\* The rows of the returned DataFrame without their timestamp.
RowsOfDf == [i \in 1..Len(df) |-> [sku |-> df[i].sku]]

\* The fetch function has returned its DataFrame.
Returned == pc \in {"display", "done"} /\ Len(calls) > 0

\* C1: within one invocation of safe_get_products, every 403/429 response is
\* followed by a sleep of backoff * attempt number (counted from 1) and, while
\* attempts remain, by another request; the invocation never issues more than
\* `retries` requests; and the first 200 ends it, returning that response's
\* decoded payload.
C1_RetryWithLinearBackoff ==
    /\ Len(statuses) <= retries
    /\ \A i \in 1..Len(sleeps) : sleeps[i] = backoff * i /\ statuses[i] \in RateLimitStatuses
    /\ Len(sleeps) = RateLimitedSoFar - (IF pc = "backoff" THEN 1 ELSE 0)
    /\ \A i \in 1..(Len(statuses) - 1) : statuses[i] \in RateLimitStatuses
    /\ (pc = "request" /\ Len(statuses) > 0) => Len(sleeps) = Len(statuses)
    /\ (~InFetcher /\ Len(statuses) > 0 /\ Last(statuses) \in RateLimitStatuses)
          => Len(statuses) = retries
    /\ (Len(statuses) > 0 /\ Last(statuses) = 200)
          => (~InFetcher /\ data = resp.json /\ resp.status_code = 200 /\ data # None)

\* Two rate-limited responses, then a 200 with records: returned after two
\* sleeps with the payload.
C1_Witness ==
    /\ pc = "returned"
    /\ statuses = <<429, 403, 200>>
    /\ sleeps = <<backoff, 2 * backoff>>
    /\ Len(data.products) = 37

\* C2: a response whose status is neither 200 nor 403/429 ends the invocation:
\* no request and no backoff sleep follows it, whatever attempts remain, and
\* the invocation returns None after st.error with the status code and body.
C2_OtherStatusIsTerminal ==
    \A i \in 1..Len(statuses) :
        statuses[i] \in OtherStatuses =>
            /\ i = Len(statuses)
            /\ ~InFetcher
            /\ Len(sleeps) = i - 1
            /\ data = None
            /\ Len(st_out) > 0
            /\ Last(st_out).kind = "error"
            /\ Last(st_out).status_code = statuses[i]
            /\ Last(st_out).text = ResponseText(statuses[i])

\* A 500 on the second attempt, one attempt still left.
C2_Witness ==
    /\ pc = "returned"
    /\ statuses = <<429, 500>>
    /\ attempt + 1 < retries
    /\ data = None

\* C3: when an invocation exhausted its retries on 403/429, the run does not
\* raise (only a failed requests.get raises): that chunk or page adds no row,
\* the rows of the earlier chunks/pages stay as they were and in order, and
\* the DataFrame the run returns holds exactly these rows.
C3_ExhaustedRetriesKeepRows ==
    (\E k \in 1..Len(fetched) : fetched[k].outcome = "exhausted") =>
        /\ all_rows = RowsOfFetched(Len(fetched))
        /\ \A k \in 1..Len(fetched) :
              fetched[k].outcome = "exhausted" => RowsOfFetched(k) = RowsOfFetched(k - 1)
        /\ Returned => RowsOfDf = all_rows
        /\ pc = "raised" => Last(statuses) = 0

\* Three chunks, the second one exhausted: the rows of the first and of the
\* third are returned.
C3_Witness ==
    /\ pc = "done"
    /\ mode = "sku"
    /\ Len(fetched) = 3
    /\ fetched[1].outcome = "ok" /\ fetched[2].outcome = "exhausted" /\ fetched[3].outcome = "ok"
    /\ Len(fetched[1].data.products) = 37 /\ Len(fetched[3].data.products) = pageSize
    /\ Len(df) = 37 + pageSize

\* A paged run whose every invocation so far returned data.
AllFetchesOk == \A k \in 1..Len(fetched) : fetched[k].outcome = "ok"
PageLen(k) == Len(fetched[k].data.products)

\* C4: in a paged run whose fetches all succeed, every page before the last
\* one fetched is a full page, no invocation follows a page of fewer than
\* pageSize records, and the run returns exactly after such a page: k calls
\* when page k is the first short one, which are k requests when no backoff
\* sleep was needed (the clock moved by the inter-call sleeps alone).
C4_PagedRunStopsAtFirstShortPage ==
    (PagedMode /\ AllFetchesOk) =>
        /\ \A k \in 1..(Len(fetched) - 1) : PageLen(k) >= pageSize
        /\ \A k \in 1..Len(fetched) :
              PageLen(k) < pageSize =>
                  /\ k = Len(fetched)
                  /\ Len(calls) = k
                  /\ pc \in {"display", "done"}
        /\ Returned => /\ Len(fetched) = Len(calls)
                       /\ PageLen(Len(fetched)) < pageSize
        /\ (Returned /\ clock = ClockAtStart + (Len(calls) - 1) * InterCallSleep)
              => net_requests = Len(calls)

\* Pages of 100, 100 and 37 records: three calls, three requests.
C4_Witness ==
    /\ pc = "done"
    /\ mode = "keyword"
    /\ AllFetchesOk
    /\ Len(fetched) = 3
    /\ PageLen(1) = pageSize /\ PageLen(2) = pageSize /\ PageLen(3) = 37
    /\ Len(calls) = 3
    /\ net_requests = 3
    /\ Len(df) = 2 * pageSize + 37

\* ceil(n / c): the least k with k * c >= n.
CeilDiv(n, c) == CHOOSE k \in 0..n : k * c >= n /\ (k = 0 \/ (k - 1) * c < n)

\* C5: a DirectLookup run over N >= 1 keys makes ceil(N / chunk_size) fetcher
\* invocations; the chunks, each of 1..chunk_size keys, concatenate in order to
\* the submitted list; and the rows returned are the records of the chunks'
\* responses in chunk order and, within a chunk, in response order.
C5_ChunkingCoversKeysInOrder ==
    (mode = "sku" /\ Len(sku_list) >= 1) =>
        /\ \A k \in 1..Len(calls) :
              Len(calls[k].chunk) >= 1 /\ Len(calls[k].chunk) <= chunk_size
        /\ KeysOfCalls(Len(calls)) = SubSeq(sku_list, 1, Len(KeysOfCalls(Len(calls))))
        /\ all_rows = RowsOfFetched(Len(fetched))
        /\ Returned => /\ Len(calls) = CeilDiv(Len(sku_list), chunk_size)
                       /\ Len(fetched) = Len(calls)
                       /\ KeysOfCalls(Len(calls)) = sku_list
                       /\ RowsOfDf = RowsOfFetched(Len(fetched))

\* 201 keys: three chunks, the last of one key, rows of all three returned.
C5_Witness ==
    /\ pc = "done"
    /\ mode = "sku"
    /\ Len(sku_list) = 2 * chunk_size + 1
    /\ Len(calls) = 3
    /\ Len(calls[3].chunk) = 1
    /\ AllFetchesOk
    /\ PageLen(1) = 37 /\ PageLen(2) = pageSize - 1 /\ PageLen(3) = 37
    /\ Len(df) = 37 + (pageSize - 1) + 37

\* C6: a paged run stops within a maximum number of pages, here MaxPages, even
\* when the server answers every request with 200 and a full page.
C6_PageCapBoundsPagedRun ==
    PagedMode => page <= MaxPages

\* C7: the run timestamp is taken once, on entering the fetch function and
\* before the first request of the run, never changes afterwards, and every
\* row of the returned DataFrame carries it.
C7_OneTimestampPerRun ==
    /\ [](/\ \A i \in 1..Len(df) : df[i].data_pull_time = run_ts
          /\ net_requests > 0 => run_ts # NoTimestamp)
    /\ [][run_ts' # run_ts =>
            /\ run_ts = NoTimestamp
            /\ pc = "enter"
            /\ net_requests = 0
            /\ run_ts' = Now]_vars

\* Three chunks with a backoff sleep on the way: the clock is seconds past
\* the timestamp the rows of all three chunks carry.
C7_Witness ==
    /\ pc = "done"
    /\ mode = "sku"
    /\ Len(fetched) = 3
    /\ AllFetchesOk
    /\ PageLen(1) = 37 /\ PageLen(2) = 37 /\ PageLen(3) = 37
    /\ Len(df) = 3 * 37
    /\ Now >= run_ts + 2
    /\ Len(sleeps) = 2

\* C8: with a positive backoff base, each backoff sleep of an invocation is
\* strictly longer than the one before it.
C8_BackoffStrictlyIncreasing ==
    backoff > 0 => \A i \in 2..Len(sleeps) : sleeps[i] > sleeps[i - 1]

\* Three rate-limited responses, three sleeps.
C8_Witness ==
    /\ pc = "returned"
    /\ Len(sleeps) = retries
    /\ statuses = <<429, 429, 429>>

\* What the UI branch holds for the run: the DataFrame it got back and the
\* branch it takes on it.
HostOutcome == [df |-> df, ui_msg |-> ui_msg]

\* The outcome of a run whose fetches all succeeded and found no record.
NoMatchesOutcome == [df |-> <<>>, ui_msg |-> "No products found."]

\* A run completed without a failed fetch and without a record.
C9_SuccessfulEmptyRun ==
    /\ pc = "done"
    /\ Len(calls) > 0
    /\ AllFetchesOk
    /\ Len(all_rows) = 0
    /\ HostOutcome = NoMatchesOutcome

\* C9: a run in which a fetch failed (terminal status or retries exhausted)
\* and that has no rows is handed to the host as something else than the
\* outcome of a successful run without matches.
C9_FailureDistinctFromNoMatches ==
    (/\ pc = "done"
     /\ Len(calls) > 0
     /\ \E k \in 1..Len(fetched) : fetched[k].outcome # "ok"
     /\ Len(all_rows) = 0)
        => HostOutcome # NoMatchesOutcome

\* The input of the mode chosen is empty.
EmptyInput ==
    \/ mode = "sku" /\ Len(sku_list) = 0
    \/ mode = "keyword" /\ keyword = ""
    \/ mode = "category" /\ category_id = ""

\* C10: with an empty key list, keyword or category id the run is over at
\* once: no fetcher invocation, no request, no rows, and the UI asks for input.
C10_EmptyInputRejected ==
    EmptyInput =>
        /\ pc = "done"
        /\ net_requests = 0
        /\ Len(calls) = 0
        /\ Len(df) = 0
        /\ ui_msg \in {"Please paste at least one SKU.", "Please enter a keyword.",
                        "Please enter a category ID."}

\* The empty keyword, rejected.
C10_Witness ==
    /\ pc = "done"
    /\ mode = "keyword"
    /\ keyword = ""
    /\ ui_msg = "Please enter a keyword."
    /\ net_requests = 0

\* Two progress values a and b, as fractions: a <= b.
FractionLeq(a, b) == a[1] * b[2] <= b[1] * a[2]

\* C11: in every mode a progress value is given out for each completed chunk
\* or page, each value lies in [0, 1], and the values of a run never decrease.
C11_ProgressAfterEachUnit ==
    /\ Len(progress) >= Len(fetched)
    /\ \A i \in 1..Len(progress) :
          progress[i][2] > 0 /\ 0 <= progress[i][1] /\ progress[i][1] <= progress[i][2]
    /\ \A i \in 1..Len(progress), j \in 1..Len(progress) :
          i < j => FractionLeq(progress[i], progress[j])

\* The part of C11 the program has: a DirectLookup run gives out 0 at its
\* start and one value per completed chunk, in [0, 1] and never decreasing,
\* ending with 1; a paged run gives out none.
C11_ProgressOfDirectLookup ==
    /\ (mode = "sku" /\ Len(calls) > 0) =>
          /\ Len(progress) = Len(fetched) + 1
          /\ \A i \in 1..Len(progress) :
                progress[i][2] > 0 /\ 0 <= progress[i][1] /\ progress[i][1] <= progress[i][2]
          /\ \A i \in 1..Len(progress), j \in 1..Len(progress) :
                i < j => FractionLeq(progress[i], progress[j])
          /\ Returned => Last(progress) = <<1, 1>>
    /\ PagedMode => progress = <<>>

\* C17: no two rows of the returned DataFrame carry the same SKU.
C17_ReturnedRowsHaveDistinctSkus ==
    Returned => \A i \in 1..Len(df), j \in 1..Len(df) : i # j => df[i].sku # df[j].sku

\* C18: a requests.get that fails at the transport level raises nothing: the
\* invocation returns None without another request, and the run goes on to
\* return the rows collected so far.
C18_TransportFailureIsTerminalForTheCall ==
    /\ pc # "raised"
    /\ \A i \in 1..Len(statuses) :
          statuses[i] = 0 => (i = Len(statuses) /\ ~InFetcher /\ data = None)

\* C19: after a failed fetch (terminal status or exhausted retries) the run
\* goes on with its remaining chunks or pages: it returns only after a
\* fetch that succeeded or after the last of the ceil(N / chunk_size) chunks.
C19_RunContinuesAfterFailedFetch ==
    \A k \in 1..Len(fetched) :
        (fetched[k].outcome # "ok" /\ pc \in {"display", "done"}) =>
            \/ Len(calls) > k
            \/ mode = "sku" /\ k = CeilDiv(Len(sku_list), chunk_size)

\* The part of C19 the program has: in a DirectLookup run a chunk whose fetch
\* ended on a terminal status or exhausted its retries is followed by the
\* next chunk, and a run that returns has attempted all its chunks.
C19_DirectLookupContinues ==
    mode = "sku" =>
        /\ \A k \in 1..Len(fetched) :
              (fetched[k].outcome # "ok" /\ k < CeilDiv(Len(sku_list), chunk_size))
                  => (pc = "sleep" /\ Len(calls) = k) \/ Len(calls) > k
        /\ Returned => Len(calls) = CeilDiv(Len(sku_list), chunk_size)

\* The pages of the first k invocations that returned a full page.
FullPages == Cardinality({k \in 1..Len(fetched) :
                 fetched[k].outcome = "ok" /\ PageLen(k) >= pageSize})

\* C20: in a paged run the invocations ask for the pages 1, 2, ..., k in this
\* order, the page index moves on by one exactly after a full page, and the
\* rows are those of the pages in page order and, within a page, in response
\* order.
C20_PagesRequestedInOrder ==
    (PagedMode /\ Len(calls) > 0) =>
        /\ \A i \in 1..Len(calls) : calls[i].page = i
        /\ page = 1 + FullPages
        /\ page = IF pc = "sleep" THEN Len(calls) + 1 ELSE Len(calls)
        /\ \A k \in 1..(Len(calls) - 1) : fetched[k].outcome = "ok" /\ PageLen(k) >= pageSize
        /\ all_rows = RowsOfFetched(Len(fetched))
        /\ Returned => RowsOfDf = RowsOfFetched(Len(fetched))

\* Three pages asked for, 100, 100 and 99 records, 299 rows.
C20_Witness ==
    /\ pc = "done"
    /\ mode = "category"
    /\ Len(calls) = 3
    /\ calls[1].page = 1 /\ calls[2].page = 2 /\ calls[3].page = 3
    /\ AllFetchesOk
    /\ PageLen(3) = pageSize - 1
    /\ Len(df) = 3 * pageSize - 1

\* The sum of the terms of a sequence of numbers.
RECURSIVE SumSeq(_)
SumSeq(q) == IF Len(q) = 0 THEN 0 ELSE q[1] + SumSeq(Tail(q))

\* C12: within one run the fixed inter-call sleep is performed between any
\* two consecutive fetcher invocations, whether the earlier one succeeded,
\* ended on a terminal error or exhausted its retries: the k-th sleep of the
\* run comes after exactly k completed invocations and lasts the fixed
\* interval, every invocation but the first comes after as many sleeps as
\* invocations before it, and the time of the run is the sum of these sleeps
\* and of the backoff sleeps inside the fetcher, which are counted apart.
C12_InterCallSleepBetweenInvocations ==
    /\ \A k \in 1..Len(pauses) : pauses[k] = [after |-> k, ticks |-> InterCallSleep]
    /\ Len(calls) > 0 => Len(pauses) \in {Len(calls) - 1, Len(calls)}
    /\ (pc \in {"request", "backoff", "returned", "raised"}) => Len(pauses) = Len(calls) - 1
    /\ Len(pauses) <= Len(fetched)
    /\ clock = ClockAtStart + Len(pauses) * InterCallSleep + backoff_total
    /\ backoff_total >= SumSeq(sleeps)

\* A direct-lookup run whose first chunk ended on a terminal error and whose
\* second exhausted its retries is at its third invocation after two sleeps.
C12_Witness ==
    /\ mode = "sku"
    /\ pc = "request"
    /\ Len(calls) = 3
    /\ fetched[1].outcome = "error"
    /\ fetched[2].outcome = "exhausted"
    /\ Len(pauses) = 2
    /\ backoff_total = BackoffDelay(0) + BackoffDelay(1) + BackoffDelay(2)
    /\ clock = ClockAtStart + 2 * InterCallSleep + backoff_total

\* C13: normalize is idempotent: the keys it returned, joined with a
\* separator and normalized again, give exactly the same ordered key list.
C13_NormalizeIdempotent ==
    norm_pc = "renormalized" => norm_again = norm_keys

\* The first position of x in the sequence q, which has it.
FirstIndex(q, x) == CHOOSE n \in 1..Len(q) : q[n] = x /\ \A m \in 1..(n - 1) : q[m] # x

\* The text t with c in the place of each of its separator characters.
WithSeparator(t, c) == [i \in 1..Len(t) |-> IF t[i] \in Separators THEN c ELSE t[i]]

\* C14: for every raw input text normalize returns keys that are non-empty,
\* hold no separator character, are pairwise distinct and stand in the order
\* of their first occurrence among the tokens of the input; commas, spaces,
\* tabs and newlines, and runs of them, are interchangeable (the text with
\* any one of them in the place of all gives the same list); an empty or
\* whitespace-only text gives the empty list.
C14_NormalizedKeyList ==
    norm_pc \in {"normalized", "renormalized"} =>
        /\ \A i \in 1..Len(norm_keys) :
              /\ Len(norm_keys[i]) > 0
              /\ \A j \in 1..Len(norm_keys[i]) : norm_keys[i][j] \notin Separators
        /\ \A i \in 1..Len(norm_keys), j \in 1..Len(norm_keys) :
              i # j => norm_keys[i] # norm_keys[j]
        /\ {norm_keys[i] : i \in 1..Len(norm_keys)}
              = {cleaned(sku_text)[i] : i \in 1..Len(cleaned(sku_text))}
        /\ \A i \in 1..Len(norm_keys), j \in 1..Len(norm_keys) :
              i < j => FirstIndex(cleaned(sku_text), norm_keys[i])
                          < FirstIndex(cleaned(sku_text), norm_keys[j])
        /\ \A c \in Separators : normalize_sku_input(WithSeparator(sku_text, c)) = norm_keys
        /\ (\A i \in 1..Len(sku_text) : sku_text[i] \in Whitespace) => norm_keys = <<>>

\* The text a , TAB a: one key, the second a ignored.
C14_Witness ==
    /\ norm_pc = "normalized"
    /\ sku_text = <<"a", ",", "\t", "a">>
    /\ norm_keys = << <<"a">> >>

\* The parts of the record the chain looks at.
HasField(k) == k \in DOMAIN product.fields
PathEntries ==
    IF HasField("categoryPath") /\ product.fields["categoryPath"].type = "list"
      THEN product.fields["categoryPath"].items ELSE <<>>
HasPathEntry == Len(PathEntries) > 0
NameOf(e) ==
    IF e.type = "dict" /\ "name" \in DOMAIN e.fields THEN e.fields["name"] ELSE PyNone
HasName(e) == NameOf(e).type = "str" /\ NameOf(e).value # ""
ClassIsMapping == HasField("class") /\ product.fields["class"].type = "dict"
ClassIsString == HasField("class") /\ product.fields["class"].type = "str"
DepartmentOrAbsent ==
    IF HasField("department") THEN product.fields["department"] ELSE PyNone

\* What the chain gives when the path test is pathTest.
ChainResult(pathTest) ==
    IF pathTest THEN NameOf(Last(PathEntries))
    ELSE IF ClassIsMapping /\ HasName(product.fields["class"])
           THEN NameOf(product.fields["class"])
    ELSE IF ClassIsString THEN product.fields["class"]
    ELSE DepartmentOrAbsent

\* C15 as stated: a category path with at least one entry yields the last
\* entry's name; otherwise a class mapping with a name yields that name;
\* otherwise a plain-string class is returned directly; otherwise department
\* if present; otherwise absent.
C15_PathWithEntryYieldsLastName ==
    cat_pc = "extracted" => category = ChainResult(HasPathEntry)

\* C15, amended: extract_category follows the fallback chain with first match
\* winning: a category path whose last entry is a mapping with a non-empty
\* name yields that name; otherwise (no path, an empty path, or a last entry
\* without a name) a class mapping with a non-empty name yields that name;
\* otherwise a plain-string class is returned directly; otherwise department
\* if present; otherwise absent.
C15_FallbackChain ==
    cat_pc = "extracted" =>
        category = ChainResult(HasPathEntry /\ HasName(Last(PathEntries)))

\* A record whose path ends in an entry without a name and whose class is a
\* plain string: the class is returned.
C15_Witness ==
    /\ cat_pc = "extracted"
    /\ product = MakeProduct(PyList(<<Entry("TVs"), NamelessEntry>>), PyStr("Laptops"),
                             PyStr("COMPUTERS"))
    /\ category = PyStr("Laptops")

\* A run on its own from the locals f up to its next request or its end.
RECURSIVE RunToRequest(_)
RunToRequest(f) ==
    IF f.pc = "backoff" THEN RunToRequest(OnBackoff(f))
    ELSE IF f.pc = "returned" THEN RunToRequest(OnReturned(f))
    ELSE IF f.pc = "sleep" /\ f.page <= MaxPagesTwo THEN RunToRequest(OnSleep(f))
    ELSE f

\* The locals of a run that runs alone and gets the responses h, in order.
RECURSIVE Alone(_)
Alone(h) ==
    IF Len(h) = 0 THEN OnEnter(IdleFrame)
    ELSE RunToRequest(OnResponse(Alone(SubSeq(h, 1, Len(h) - 1)), h[Len(h)]))

\* C16: when two independent runs interleave their fetcher invocations in
\* any order no retry or backoff state is shared: the attempt counter, the
\* backoff delays, the page index, the accumulated rows and the result of
\* each run are those of a run that runs alone and gets the same responses
\* to its own requests.
C16_RunsShareNoState ==
    \A r \in Runs :
        /\ frames[r].pc = "idle" => run_resps[r] = <<>>
        /\ frames[r].pc # "idle" => RunToRequest(frames[r]) = Alone(run_resps[r])
        /\ frames[r].pc \in {"request", "done", "raised"} =>
              /\ frames[r].attempt = Alone(run_resps[r]).attempt
              /\ frames[r].sleeps = Alone(run_resps[r]).sleeps
              /\ frames[r].page = Alone(run_resps[r]).page
              /\ frames[r].all_rows = Alone(run_resps[r]).all_rows
              /\ frames[r].df = Alone(run_resps[r]).df

\* Run 1 is at the second attempt for its page 2 while run 2 sleeps in the
\* backoff of the third attempt for its page 1.
C16_Witness ==
    /\ frames[1].pc = "request"
    /\ frames[1].page = 2
    /\ frames[1].attempt = 1
    /\ Len(frames[1].all_rows) = pageSize
    /\ frames[2].pc = "backoff"
    /\ frames[2].page = 1
    /\ frames[2].attempt = 2
    /\ frames[2].sleeps = <<BackoffDelay(0), BackoffDelay(1)>>

====
